---------------------------- MODULE Spec2Model ----------------------------
(***************************************************************************)
(* Model of the omniarb Rust core:                                         *)
(*   routing/prefilter.rs   RoutePrefilter, Route                          *)
(*   ffi/signal_bridge.rs   SignalBridge, bridge_send_signal, bridge_init  *)
(*   ws/block_listener.rs   BlockListener                                  *)
(*   ws/dex_stream.rs       DexStream                                      *)
(*   main.rs                main                                           *)
(***************************************************************************)
EXTENDS Integers, Sequences, FiniteSets

VARIABLES
    prefilter,      \* the RoutePrefilter: [min_profit_threshold, max_hops]
    routes,         \* the Vec<Route> being assembled / handed to prefilter_batch
    accepted,       \* the Vec<Route> returned by the last prefilter_batch call
    phase,          \* "collect": batch being assembled; "filtered": prefilter_batch returned
    verdict,        \* the last filter_route call: [called, route, result]
    bridges,        \* the live SignalBridge instances, by address: <<[signal_count]>>
    issued,         \* every count a send printed, in order: <<[caller, bridge, count]>>
    printed,        \* the last line written by send_signal: [signal, count]
    received,       \* the last receive_signal call: [called, result, gap]
    next_inbound,   \* the sequence number the next inbound envelope should carry
    main_pc,        \* where main() is: "spawn_brain", "spawn_executor", "parked", "panicked"
    children,       \* the child processes main() has started, in order
    latest_block,   \* BlockListener.latest_block, the u64 inside the mutex
    lb_owner,       \* the task holding the latest_block mutex, or NoTask
    connected,      \* DexStream.connected, the bool inside the mutex
    cn_owner,       \* the task holding the connected mutex, or NoTask
    pc,             \* per task: where it is inside the async fn it is running
    block_read,     \* per task: what its last get_latest_block returned
    delivered,      \* the block heights the node has pushed to the listener so far
    price_updates,  \* the observed_at of every price snapshot the feed has pushed so far
    stdout          \* the last line the ws module printed

filterVars == <<prefilter, routes, accepted, phase, verdict>>
bridgeVars == <<bridges, issued, printed, received, next_inbound>>
mainVars == <<main_pc, children>>
wsVars ==
    <<latest_block, lb_owner, connected, cn_owner, pc, block_read, delivered,
      price_updates, stdout>>

vars == <<filterVars, bridgeVars, mainVars, wsVars>>

(***************************************************************************)
(* Bounds of the model.                                                    *)
(***************************************************************************)
MaxBatch == 3        \* longest Vec<Route> handed to prefilter_batch
MaxRouteHops == 2    \* longest hops vector of a generated route; also the largest max_hops
MaxBridges == 2      \* SignalBridge instances alive at once
MaxSends == 3        \* sends issued in one run
MaxHeight == 2       \* highest block height the node announces
MaxSeq == 2          \* highest sequence number on an inbound envelope
MaxObservedAt == 2   \* latest observed_at on a pushed price snapshot

(***************************************************************************)
(* f64.  A value is either NaN or a finite number, kept in thousandths     *)
(* (0.01 is F(10)).  Comparison is IEEE 754: every ordered comparison with *)
(* a NaN operand is false.                                                 *)
(***************************************************************************)
F(v) == [nan |-> FALSE, v |-> v]
NaN == [nan |-> TRUE, v |-> 0]

f64_lt(a, b) == ~a.nan /\ ~b.nan /\ a.v < b.v
f64_ge(a, b) == ~a.nan /\ ~b.nan /\ a.v >= b.v

Profits == {F(1), F(10), NaN}
Thresholds == {F(10), NaN}

(***************************************************************************)
(* routing/prefilter.rs                                                    *)
(***************************************************************************)
\* struct Route.  Hop and token identifiers are numbered; a route over n hops
\* visits n+1 tokens.
Route(hops, estimated_profit, token_path) ==
    [hops |-> hops, estimated_profit |-> estimated_profit, token_path |-> token_path]

HopsOfLen(n) == [i \in 1..n |-> i]
TokensFor(hops) == [i \in 1..(Len(hops) + 1) |-> 100 + i]

Routes ==
    { Route(HopsOfLen(n), p, TokensFor(HopsOfLen(n))) : n \in 0..MaxRouteHops, p \in Profits }

RoutePrefilter_new(min_profit_threshold, max_hops) ==
    [min_profit_threshold |-> min_profit_threshold, max_hops |-> max_hops]

\* filter_route with the fault of an exclusive hop bound (>= for >)
filter_route_excl(self, route) ==
    IF Len(route.hops) >= self.max_hops THEN FALSE
    ELSE IF f64_lt(route.estimated_profit, self.min_profit_threshold) THEN FALSE
    ELSE TRUE

filter_route(self, route) ==
    IF Len(route.hops) > self.max_hops THEN FALSE
    ELSE IF f64_lt(route.estimated_profit, self.min_profit_threshold) THEN FALSE
    ELSE TRUE

RECURSIVE iter_filter(_, _)
iter_filter(self, rs) ==
    IF rs = <<>> THEN <<>>
    ELSE (IF filter_route(self, Head(rs)) THEN <<Head(rs)>> ELSE <<>>)
             \o iter_filter(self, Tail(rs))

RECURSIVE iter_filter_rev(_, _)
iter_filter_rev(self, rs) ==
    IF rs = <<>> THEN <<>>
    ELSE iter_filter_rev(self, Tail(rs))
             \o (IF filter_route(self, Head(rs)) THEN <<Head(rs)>> ELSE <<>>)

\* prefilter_batch with the fault of collecting the accepted routes back to front
prefilter_batch_rev(self, rs) == iter_filter_rev(self, rs)

\* prefilter_batch with the fault of rebuilding each accepted route without its token path
prefilter_batch_strip(self, rs) ==
    LET out == iter_filter(self, rs)
    IN  [k \in 1..Len(out) |-> Route(out[k].hops, out[k].estimated_profit, <<>>)]

prefilter_batch(self, rs) == iter_filter(self, rs)

NoVerdict == [called |-> FALSE, route |-> Route(<<>>, F(0), <<>>), result |-> FALSE]

InitFilter(t, m) ==
    /\ prefilter = RoutePrefilter_new(t, m)
    /\ routes = <<>>
    /\ accepted = <<>>
    /\ phase = "collect"
    /\ verdict = NoVerdict

\* The caller builds the Vec<Route> it will hand to prefilter_batch.
PushRoute(r) ==
    /\ phase = "collect"
    /\ Len(routes) < MaxBatch
    /\ routes' = Append(routes, r)
    /\ UNCHANGED <<prefilter, accepted, phase, verdict>>
    /\ UNCHANGED <<bridgeVars, mainVars, wsVars>>

\* prefilter.filter_route(&routes[i])
FilterRoute(i) ==
    /\ phase = "collect"
    /\ i \in DOMAIN routes
    /\ verdict' = [called |-> TRUE, route |-> routes[i],
                   result |-> filter_route(prefilter, routes[i])]
    /\ UNCHANGED <<prefilter, routes, accepted, phase>>
    /\ UNCHANGED <<bridgeVars, mainVars, wsVars>>

\* prefilter.prefilter_batch(routes); `routes` keeps the value that was moved in.
PrefilterBatch ==
    /\ phase = "collect"
    /\ accepted' = prefilter_batch(prefilter, routes)
    /\ phase' = "filtered"
    /\ UNCHANGED <<prefilter, routes, verdict>>
    /\ UNCHANGED <<bridgeVars, mainVars, wsVars>>

\* The caller drops the result and starts assembling the next batch.
NextBatch ==
    /\ phase = "filtered"
    /\ routes' = <<>>
    /\ accepted' = <<>>
    /\ phase' = "collect"
    /\ verdict' = NoVerdict
    /\ UNCHANGED prefilter
    /\ UNCHANGED <<bridgeVars, mainVars, wsVars>>

NextFilter ==
    \/ \E r \in Routes : PushRoute(r)
    \/ \E i \in 1..MaxBatch : FilterRoute(i)
    \/ PrefilterBatch
    \/ NextBatch

(***************************************************************************)
(* ffi/signal_bridge.rs                                                    *)
(***************************************************************************)
\* The processes that send through the bridge.
Callers == {"scanner", "python_brain", "node_executor"}

\* What a caller passes as the signal: a &str, or for the exported entry point a
\* NUL-terminated C string that need not be UTF-8.
CStrs == { [utf8 |-> TRUE, text |-> "ROUTE_ACCEPTED"], [utf8 |-> FALSE, text |-> "?"] }

\* c_str.to_str().unwrap_or("INVALID_SIGNAL")
to_str_or_invalid(c_str) == IF c_str.utf8 THEN c_str.text ELSE "INVALID_SIGNAL"

SignalBridge_new == [signal_count |-> 0]

\* send_signal with the fault of a lost increment
send_signal_lost(self) == self

\* send_signal(&mut self, _): the bridge after the call.  The caller holds the only
\* reference to the bridge for the whole call, so two sends on one bridge never overlap.
send_signal(self) == [self EXCEPT !.signal_count = @ + 1]

\* after_send with the fault of one counter shared by every instance
after_send_shared(bs, b) == [i \in DOMAIN bs |-> send_signal(bs[i])]

\* The instances after bridges[b].send_signal(..): only the receiver is written.
after_send(bs, b) == [bs EXCEPT ![b] = send_signal(bs[b])]

\* The address 0 stands for the bridge that bridge_send_signal builds on its own stack.
StackBridge == 0

\* receive_signal with the fault of counting the received signal as a sent one
after_receive_counted(bs, b) == after_send(bs, b)

\* The instances after bridges[b].receive_signal(): &self, nothing is written.
after_receive(bs, b) == bs

\* receive_signal(&self) -> String
receive_signal(self) == "SIGNAL_RECEIVED"

NotReceived == [called |-> FALSE, result |-> "", gap |-> FALSE]

InitBridge ==
    /\ bridges = <<>>
    /\ issued = <<>>
    /\ printed = [signal |-> "", count |-> 0]
    /\ received = NotReceived
    /\ next_inbound = 1

\* SignalBridge::new(), kept by a Rust caller
New ==
    /\ Len(bridges) < MaxBridges
    /\ bridges' = Append(bridges, SignalBridge_new)
    /\ UNCHANGED <<issued, printed, received, next_inbound>>
    /\ UNCHANGED <<filterVars, mainVars, wsVars>>

\* bridge_init(): Box::into_raw(Box::new(SignalBridge::new()))
BridgeInit ==
    /\ Len(bridges) < MaxBridges
    /\ bridges' = Append(bridges, SignalBridge_new)
    /\ UNCHANGED <<issued, printed, received, next_inbound>>
    /\ UNCHANGED <<filterVars, mainVars, wsVars>>

\* bridges[b].send_signal(signal), called by `caller`
SendSignal(caller, b, signal) ==
    /\ b \in DOMAIN bridges
    /\ Len(issued) < MaxSends
    /\ bridges' = after_send(bridges, b)
    /\ issued' = Append(issued, [caller |-> caller, bridge |-> b,
                                 count |-> bridges'[b].signal_count])
    /\ printed' = [signal |-> signal, count |-> bridges'[b].signal_count]
    /\ UNCHANGED <<received, next_inbound>>
    /\ UNCHANGED <<filterVars, mainVars, wsVars>>

\* bridge_send_signal(signal), called by `caller` with a valid C string
BridgeSendSignal(caller, c_str) ==
    /\ Len(issued) < MaxSends
    /\ LET signal_str == to_str_or_invalid(c_str)
           bridge == send_signal(SignalBridge_new)
       IN  /\ issued' = Append(issued, [caller |-> caller, bridge |-> StackBridge,
                                        count |-> bridge.signal_count])
           /\ printed' = [signal |-> signal_str, count |-> bridge.signal_count]
    /\ UNCHANGED <<bridges, received, next_inbound>>
    /\ UNCHANGED <<filterVars, mainVars, wsVars>>

\* bridges[b].receive_signal(), called while a collaborator hands over an inbound
\* envelope numbered seq: the body returns its fixed string; nothing reads the envelope.
ReceiveSignal(b, seq) ==
    /\ b \in DOMAIN bridges
    /\ received' = [called |-> TRUE, result |-> receive_signal(bridges[b]),
                    gap |-> seq > next_inbound]
    /\ next_inbound' = IF seq >= next_inbound THEN seq + 1 ELSE next_inbound
    /\ bridges' = after_receive(bridges, b)
    /\ UNCHANGED <<issued, printed>>
    /\ UNCHANGED <<filterVars, mainVars, wsVars>>

NextBridge ==
    \/ \E b \in 1..MaxBridges, seq \in 1..MaxSeq : ReceiveSignal(b, seq)
    \/ New
    \/ BridgeInit
    \/ \E c \in Callers, b \in 1..MaxBridges : SendSignal(c, b, "ROUTE_ACCEPTED")
    \/ \E c \in Callers, s \in CStrs : BridgeSendSignal(c, s)

(***************************************************************************)
(* main.rs                                                                 *)
(***************************************************************************)
InitMain ==
    /\ main_pc = "spawn_brain"
    /\ children = <<>>

\* SpawnBrain with the fault of a spawn result that is not checked (no expect)
SpawnBrain_unchecked(ok) ==
    /\ main_pc = "spawn_brain"
    /\ children' = IF ok THEN Append(children, "python") ELSE children
    /\ main_pc' = "spawn_executor"
    /\ UNCHANGED <<filterVars, bridgeVars, wsVars>>

\* Command::new("python")...spawn().expect("Failed to start Python brain")
SpawnBrain(ok) ==
    /\ main_pc = "spawn_brain"
    /\ IF ok
       THEN /\ children' = Append(children, "python")
            /\ main_pc' = "spawn_executor"
       ELSE /\ children' = children
            /\ main_pc' = "panicked"
    /\ UNCHANGED <<filterVars, bridgeVars, wsVars>>

\* Command::new("node")...spawn().expect("Failed to start Node executor")
SpawnExecutor(ok) ==
    /\ main_pc = "spawn_executor"
    /\ IF ok
       THEN /\ children' = Append(children, "node")
            /\ main_pc' = "parked"
       ELSE /\ children' = children
            /\ main_pc' = "panicked"
    /\ UNCHANGED <<filterVars, bridgeVars, wsVars>>

\* loop { std::thread::park(); }: a wake-up goes round the loop and parks again
Park ==
    /\ main_pc = "parked"
    /\ UNCHANGED <<main_pc, children>>
    /\ UNCHANGED <<filterVars, bridgeVars, wsVars>>

NextMain ==
    \/ \E ok \in BOOLEAN : SpawnBrain(ok)
    \/ \E ok \in BOOLEAN : SpawnExecutor(ok)
    \/ Park

(***************************************************************************)
(* ws/block_listener.rs and ws/dex_stream.rs                               *)
(***************************************************************************)
\* The concurrent tasks that share one BlockListener and one DexStream.
Tasks == {"task_a", "task_b"}
NoTask == "none"

NotRead == [returned |-> FALSE, value |-> 0, max_delivered |-> 0]

RECURSIVE MaxOf(_)
MaxOf(S) ==
    IF S = {} THEN 0
    ELSE LET x == CHOOSE y \in S : TRUE
             m == MaxOf(S \ {x})
         IN  IF x > m THEN x ELSE m

\* BlockListener::new(..) and DexStream::new(..)
InitWs ==
    /\ latest_block = 0
    /\ lb_owner = NoTask
    /\ connected = FALSE
    /\ cn_owner = NoTask
    /\ pc = [t \in Tasks |-> "idle"]
    /\ block_read = [t \in Tasks |-> NotRead]
    /\ delivered = {}
    /\ price_updates = {}
    /\ stdout = ""

\* DexStream::connect, entered: the task reaches self.connected.lock().await
DexConnectCall(t) ==
    /\ pc[t] = "idle"
    /\ pc' = [pc EXCEPT ![t] = "connect_lock"]
    /\ UNCHANGED <<latest_block, lb_owner, connected, cn_owner, block_read, delivered,
                 price_updates, stdout>>
    /\ UNCHANGED <<filterVars, bridgeVars, mainVars>>

\* let mut connected = self.connected.lock().await;  (suspended until the mutex is free)
DexConnectLock(t) ==
    /\ pc[t] = "connect_lock"
    /\ cn_owner = NoTask
    /\ cn_owner' = t
    /\ pc' = [pc EXCEPT ![t] = "connect_set"]
    /\ UNCHANGED <<latest_block, lb_owner, connected, block_read, delivered,
                 price_updates, stdout>>
    /\ UNCHANGED <<filterVars, bridgeVars, mainVars>>

\* connect with the fault of flipping the flag instead of setting it
connect_write_toggle(flag) == ~flag

\* *connected = true;  -- the flag after the write
connect_write(flag) == TRUE

\* struct DexStream { url, connected }: the snapshot it holds for a key.  There is
\* no price table; whatever the key, nothing is stored.
PriceKey == <<"quickswap", "WMATIC/USDC">>
DexStream_snapshot(key) == [present |-> FALSE, observed_at |-> 0]

\* *connected = true;
DexConnectSet(t) ==
    /\ pc[t] = "connect_set"
    /\ connected' = connect_write(connected)
    /\ pc' = [pc EXCEPT ![t] = "connect_print"]
    /\ UNCHANGED <<latest_block, lb_owner, cn_owner, block_read, delivered,
                 price_updates, stdout>>
    /\ UNCHANGED <<filterVars, bridgeVars, mainVars>>

\* println!("Connected to DEX stream: {}", self.url);  (the guard is still alive)
DexConnectPrint(t) ==
    /\ pc[t] = "connect_print"
    /\ stdout' = "Connected to DEX stream"
    /\ pc' = [pc EXCEPT ![t] = "connect_ret"]
    /\ UNCHANGED <<latest_block, lb_owner, connected, cn_owner, block_read, delivered,
                 price_updates>>
    /\ UNCHANGED <<filterVars, bridgeVars, mainVars>>

\* Ok(()) and the end of the function body: the guard `connected` is dropped
DexConnectReturn(t) ==
    /\ pc[t] = "connect_ret"
    /\ cn_owner' = NoTask
    /\ pc' = [pc EXCEPT ![t] = "idle"]
    /\ UNCHANGED <<latest_block, lb_owner, connected, block_read, delivered,
                 price_updates, stdout>>
    /\ UNCHANGED <<filterVars, bridgeVars, mainVars>>

\* DexStream::stream_prices, while the feed pushes a snapshot for PriceKey observed
\* at observed_at: the body prints one line and returns; nothing reads the snapshot.
StreamPrices(t, observed_at) ==
    /\ pc[t] = "idle"
    /\ price_updates' = price_updates \cup {observed_at}
    /\ stdout' = "Streaming prices from DEX"
    /\ UNCHANGED <<latest_block, lb_owner, connected, cn_owner, pc, block_read, delivered>>
    /\ UNCHANGED <<filterVars, bridgeVars, mainVars>>

\* BlockListener::connect
BlockConnect(t) ==
    /\ pc[t] = "idle"
    /\ stdout' = "Connected to chain"
    /\ UNCHANGED <<latest_block, lb_owner, connected, cn_owner, pc, block_read, delivered,
                 price_updates>>
    /\ UNCHANGED <<filterVars, bridgeVars, mainVars>>

\* BlockListener::listen_blocks, while the node at rpc_url announces a block at
\* height h: the body prints one line and returns; nothing reads the announcement.
ListenBlocks(t, h) ==
    /\ pc[t] = "idle"
    /\ delivered' = delivered \cup {h}
    /\ stdout' = "Listening for new blocks"
    /\ UNCHANGED <<latest_block, lb_owner, connected, cn_owner, pc, block_read, price_updates>>
    /\ UNCHANGED <<filterVars, bridgeVars, mainVars>>

\* BlockListener::get_latest_block, entered: the task reaches self.latest_block.lock().await
GetLatestBlockCall(t) ==
    /\ pc[t] = "idle"
    /\ pc' = [pc EXCEPT ![t] = "glb_lock"]
    /\ UNCHANGED <<latest_block, lb_owner, connected, cn_owner, block_read, delivered,
                 price_updates, stdout>>
    /\ UNCHANGED <<filterVars, bridgeVars, mainVars>>

\* let block = self.latest_block.lock().await;
GetLatestBlockLock(t) ==
    /\ pc[t] = "glb_lock"
    /\ lb_owner = NoTask
    /\ lb_owner' = t
    /\ pc' = [pc EXCEPT ![t] = "glb_read"]
    /\ UNCHANGED <<latest_block, connected, cn_owner, block_read, delivered,
                 price_updates, stdout>>
    /\ UNCHANGED <<filterVars, bridgeVars, mainVars>>

\* *block  -- the value is copied out, the guard dropped, the call returns
GetLatestBlockReturn(t) ==
    /\ pc[t] = "glb_read"
    /\ block_read' = [block_read EXCEPT ![t] =
           [returned |-> TRUE, value |-> latest_block, max_delivered |-> MaxOf(delivered)]]
    /\ lb_owner' = NoTask
    /\ pc' = [pc EXCEPT ![t] = "idle"]
    /\ UNCHANGED <<latest_block, connected, cn_owner, delivered, price_updates, stdout>>
    /\ UNCHANGED <<filterVars, bridgeVars, mainVars>>

NextWs ==
    \/ \E t \in Tasks : DexConnectCall(t)
    \/ \E t \in Tasks : DexConnectLock(t)
    \/ \E t \in Tasks : DexConnectSet(t)
    \/ \E t \in Tasks : DexConnectPrint(t)
    \/ \E t \in Tasks : DexConnectReturn(t)
    \/ \E t \in Tasks, at \in 1..MaxObservedAt : StreamPrices(t, at)
    \/ \E t \in Tasks : BlockConnect(t)
    \/ \E t \in Tasks, h \in 1..MaxHeight : ListenBlocks(t, h)
    \/ \E t \in Tasks : GetLatestBlockCall(t)
    \/ \E t \in Tasks : GetLatestBlockLock(t)
    \/ \E t \in Tasks : GetLatestBlockReturn(t)

(***************************************************************************)
(* Specifications.                                                         *)
(***************************************************************************)
\* The prefilter, over every configuration.
InitSpecFilter ==
    /\ \E t \in Thresholds, m \in 0..MaxRouteHops : InitFilter(t, m)
    /\ InitBridge
    /\ InitMain
    /\ InitWs

SpecFilter == InitSpecFilter /\ [][NextFilter]_vars

\* The process: main() and the bridge the collaborators call into.
InitSpecProcess ==
    /\ InitFilter(F(10), MaxRouteHops)
    /\ InitBridge
    /\ InitMain
    /\ InitWs

NextProcess == NextBridge \/ NextMain

SpecProcess == InitSpecProcess /\ [][NextProcess]_vars

\* The listeners, shared by concurrent tasks.
InitSpecWs ==
    /\ InitFilter(F(10), MaxRouteHops)
    /\ InitBridge
    /\ InitMain
    /\ InitWs

SpecWs == InitSpecWs /\ [][NextWs]_vars

(***************************************************************************)
(* Properties of the prefilter.                                            *)
(***************************************************************************)
Range(s) == { s[i] : i \in DOMAIN s }
Count(s, r) == Cardinality({ i \in DOMAIN s : s[i] = r })

\* The indices of the input routes that filter_route accepts, and the k-th of them.
AcceptedIdx == { i \in DOMAIN routes : filter_route(prefilter, routes[i]) }
KthAccepted(k) ==
    CHOOSE i \in AcceptedIdx : Cardinality({ j \in AcceptedIdx : j <= i }) = k

\* C1 (as amended): filter_route returns true iff hops.len() <= max_hops and the
\* profit is not below the threshold: profit >= threshold when both are numbers,
\* and the profit check passes when either of them is NaN.  Both bounds inclusive.
C1_FilterRouteRule ==
    verdict.called =>
        LET r == verdict.route
            p == r.estimated_profit
            t == prefilter.min_profit_threshold
        IN  verdict.result =
                (/\ Len(r.hops) <= prefilter.max_hops
                 /\ (f64_ge(p, t) \/ p.nan \/ t.nan))

\* C1 as stated: filter_route returns true iff hops.len() <= max_hops and
\* estimated_profit >= min_profit_threshold.
C1_Original ==
    verdict.called =>
        verdict.result =
            (/\ Len(verdict.route.hops) <= prefilter.max_hops
             /\ f64_ge(verdict.route.estimated_profit, prefilter.min_profit_threshold))

\* a route with exactly max_hops hops and a profit equal to the threshold was accepted
C1_Witness ==
    /\ verdict.called
    /\ verdict.result
    /\ Len(verdict.route.hops) = prefilter.max_hops
    /\ Len(verdict.route.hops) > 0
    /\ ~prefilter.min_profit_threshold.nan
    /\ verdict.route.estimated_profit = prefilter.min_profit_threshold

ExamplePrefilter == RoutePrefilter_new(F(10), 4)
ExampleBatch ==
    << Route(HopsOfLen(3), F(20), TokensFor(HopsOfLen(3))),
       Route(HopsOfLen(6), F(500), TokensFor(HopsOfLen(6))),
       Route(HopsOfLen(2), F(1), TokensFor(HopsOfLen(2))) >>

\* C2: prefilter_batch returns exactly the subsequence of its input made of the
\* routes filter_route accepts, in their original relative order: the k-th output
\* is the input at the k-th accepted index.  The three-route example yields its
\* first route only.
C2_StableFilter ==
    /\ phase = "filtered" =>
          /\ Len(accepted) = Cardinality(AcceptedIdx)
          /\ \A k \in 1..Len(accepted) : accepted[k] = routes[KthAccepted(k)]
    /\ prefilter_batch(ExamplePrefilter, ExampleBatch) = << ExampleBatch[1] >>

\* a batch whose first route was rejected and whose later, different routes were
\* both accepted
C2_Witness ==
    /\ phase = "filtered"
    /\ Len(routes) = 3
    /\ Len(accepted) = 2
    /\ accepted[1] = routes[2]
    /\ accepted[2] = routes[3]
    /\ routes[2] # routes[3]

\* C4 as stated: a route with zero hops is never accepted by filter_route and
\* never appears in the output of prefilter_batch.
C4_ZeroHopRejected ==
    /\ (verdict.called /\ Len(verdict.route.hops) = 0) => ~verdict.result
    /\ \A k \in 1..Len(accepted) : Len(accepted[k].hops) > 0

\* C10: the prefilter's configuration is never changed by a call, every route
\* prefilter_batch returns is one of its input routes with all three fields intact,
\* and equal input routes get the same decision (all of them kept or all dropped).
C10_NothingMutated ==
    [][ /\ prefilter' = prefilter
        /\ phase' = "filtered" =>
              /\ \A k \in 1..Len(accepted') : accepted'[k] \in Range(routes')
              /\ \A r \in Range(routes') : Count(accepted', r) \in {0, Count(routes', r)}
      ]_vars

\* a batch holding the same route twice was filtered and both copies came out
C10_Witness ==
    /\ phase = "filtered"
    /\ Len(routes) >= 2
    /\ routes[1] = routes[2]
    /\ Len(routes[1].token_path) > 1
    /\ Count(accepted, routes[1]) = 2


(***************************************************************************)
(* Properties of the signal bridge.                                        *)
(***************************************************************************)
IssuedOn(b) == { i \in DOMAIN issued : issued[i].bridge = b }

\* C3: on every bridge instance the counts handed out by its sends, whichever
\* callers made them and in whatever order, are pairwise distinct and are exactly
\* 1 .. signal_count (the counter starts at 0): no increment is lost.
C3_ContiguousCounts ==
    \A b \in DOMAIN bridges :
        /\ { issued[i].count : i \in IssuedOn(b) } = 1..bridges[b].signal_count
        /\ Cardinality(IssuedOn(b)) = bridges[b].signal_count

\* three sends on one bridge, made by more than one caller
C3_Witness ==
    \E b \in DOMAIN bridges :
        /\ bridges[b].signal_count = 3
        /\ Cardinality({ issued[i].caller : i \in IssuedOn(b) }) > 1

\* C5 as stated: among the signals one process sends through bridge_send_signal,
\* each count is strictly greater than every earlier one.
C5_EntryPointCountsIncrease ==
    \A i, j \in IssuedOn(StackBridge) :
        (i < j /\ issued[i].caller = issued[j].caller) => issued[i].count < issued[j].count

\* C7: a new bridge starts with signal_count = 0 and creating it changes no other
\* bridge; a send on one bridge leaves the signal_count of every other bridge as it was.
C7_PerInstanceCounter ==
    [][ /\ Len(bridges') > Len(bridges) =>
              /\ bridges'[Len(bridges')].signal_count = 0
              /\ \A c \in DOMAIN bridges : bridges'[c] = bridges[c]
        /\ issued' # issued =>
              \A c \in DOMAIN bridges :
                  c # issued'[Len(issued')].bridge => bridges'[c] = bridges[c]
      ]_vars

\* two bridges, sends on both interleaved, each with its own count
C7_Witness ==
    /\ Len(bridges) = 2
    /\ Len(issued) = 3
    /\ issued[1].bridge = 1 /\ issued[2].bridge = 2 /\ issued[3].bridge = 1
    /\ bridges[1].signal_count = 2
    /\ bridges[2].signal_count = 1



\* C11 as stated: whenever receive is handed an inbound envelope whose sequence
\* number skips ahead of the next expected one, it surfaces SequenceGapDetected to
\* its caller.
C11_GapSurfaced ==
    (received.called /\ received.gap) => received.result = "SequenceGapDetected"

\* C13: receive_signal leaves every signal_count as it was; a signal_count changes
\* only in a send_signal step on that bridge, and then by exactly 1, so it never
\* decreases.
C13_ReceiveReadOnly ==
    [][ /\ (received' # received \/ next_inbound' # next_inbound) => bridges' = bridges
        /\ \A b \in DOMAIN bridges :
              \/ bridges'[b].signal_count = bridges[b].signal_count
              \/ /\ bridges'[b].signal_count = bridges[b].signal_count + 1
                 /\ Len(issued') = Len(issued) + 1
                 /\ issued'[Len(issued')].bridge = b
      ]_vars

\* a bridge that has sent twice and has then received
C13_Witness ==
    /\ received.called
    /\ \E b \in DOMAIN bridges : bridges[b].signal_count = 2
    /\ next_inbound > 1

(***************************************************************************)
(* Properties of main.                                                     *)
(***************************************************************************)
\* C8 as stated: the core never starts its collaborators: in no state has main()
\* started the Python brain or the Node executor.
C8_NeverSpawnsCollaborators == children = <<>>


\* C15: main starts the Python brain before the Node executor; when starting the
\* brain fails the process panics and the executor is never started; once both
\* are started main is parked and stays parked for ever.
C15_StartupOrder ==
    /\ [](/\ children \in { <<>>, <<"python">>, <<"python", "node">> }
          /\ children = <<"python", "node">> => main_pc = "parked"
          /\ main_pc = "spawn_brain" => children = <<>>)
    /\ [][ /\ (main_pc = "spawn_brain" /\ children' = children) => main_pc' = "panicked"
           /\ main_pc = "panicked" => (main_pc' = "panicked" /\ children' = children)
           /\ main_pc = "parked" => (main_pc' = "parked" /\ children' = children)
         ]_mainVars

\* both collaborators started, in order, and main parked
C15_Witness ==
    /\ main_pc = "parked"
    /\ children = <<"python", "node">>

(***************************************************************************)
(* Properties of the listeners.                                            *)
(***************************************************************************)
\* C6 as stated: what get_latest_block returns is the highest block height delivered
\* to the listener so far (0 when none was), so the readable height never decreases.
C6_ReadIsMaxDelivered ==
    \A t \in Tasks :
        block_read[t].returned => block_read[t].value = block_read[t].max_delivered

\* C9 as stated: each mutex is held only for the single read or write of the field
\* it guards (and the release that follows it), never while its holder is at an I/O
\* or await point, and no reachable state is a deadlock.
C9_LockOnlyAroundAccess ==
    /\ \A t \in Tasks : cn_owner = t => pc[t] \in {"connect_set", "connect_ret"}
    /\ \A t \in Tasks : lb_owner = t => pc[t] = "glb_read"
    /\ ENABLED NextWs


\* C12 as stated: once updates have been applied for a key, the snapshot stored for
\* that key has an observed_at at least that of every update applied so far.
C12_StoredIsLatest ==
    price_updates # {} =>
        /\ DexStream_snapshot(PriceKey).present
        /\ DexStream_snapshot(PriceKey).observed_at >= MaxOf(price_updates)

\* C14: the connected flag is false at first, is true from the write in connect on
\* (so whenever a connect call returns), never goes back to false, and is left as
\* it is by stream_prices.
C14_ConnectedLatches ==
    /\ connected = FALSE
    /\ [](\A t \in Tasks : pc[t] \in {"connect_print", "connect_ret"} => connected)
    /\ [][ /\ connected => connected'
           /\ \A t \in Tasks : (pc[t] = "connect_ret" /\ pc'[t] = "idle") => connected'
           /\ price_updates' # price_updates => connected' = connected
         ]_wsVars

\* a connect has returned, stream_prices has run since, and another connect is under way
C14_Witness ==
    /\ connected
    /\ cn_owner = NoTask
    /\ stdout = "Streaming prices from DEX"
    /\ price_updates # {}
    /\ \E t \in Tasks : pc[t] = "connect_lock"

=============================================================================
